---- MODULE Spec2Model ----
(***************************************************************************)
(* The character device "new_device" of src/source.c: one process-wide     *)
(* stack of int32_t (stack_entries, stack_size, top) that open() creates,  *)
(* release() destroys, read() pops, write() pushes and ioctl(1, n)         *)
(* resizes.  Every handler runs between mutex_lock(&stack_mutex) and       *)
(* mutex_unlock(&stack_mutex), so each handler is one atomic action here.  *)
(***************************************************************************)
EXTENDS Integers, Sequences, FiniteSets, TLC

VARIABLES
    loaded,         \* the module is inserted (character_driver_init returned 0)
    nopen,          \* struct file objects open on the device (f_ops users)
    stack_entries,  \* static int32_t* stack_entries: NULL or a kmalloc'ed buffer
    stack_size,     \* static uint8_t stack_size
    top,            \* static uint8_t top
    live,           \* buffers obtained from kmalloc and not yet given to kfree
    last,           \* the last handler call: its inputs and what it returned
    run,            \* values of the current unbroken run of pushes not yet popped
    stack_mutex,    \* static DEFINE_MUTEX(stack_mutex): TRUE while locked
    pc,             \* where each thread stands in the handler it called
    handler,        \* the handler each thread called
    loc,            \* what each thread's handler has read and tested so far
    fd              \* whether each thread holds the device open

corevars == <<loaded, nopen, stack_entries, stack_size, top, live, last, run>>

lockvars == <<stack_mutex, pc, handler, loc, fd>>

vars == <<loaded, nopen, stack_entries, stack_size, top, live, last, run,
          stack_mutex, pc, handler, loc, fd>>

(***************************************************************************)
(* Program constants.                                                      *)
(***************************************************************************)
MEM_SIZE == 1024
STACK_MAX_SIZE == 1024
UINT8_MOD == 256
SIZEOF_INT32 == 4
RESIZE_CMD == 1
ENOMEM == 12
EINVAL == 22
EFAULT == 14

(***************************************************************************)
(* Bounds of the model.                                                    *)
(***************************************************************************)
MaxSmall == 3
MaxSessions == 2

\* The int32_t values user space writes.
Values == {10, 20}

\* ioctl arguments: the small sizes, the sizes that wrap in a uint8_t, the
\* largest accepted size and the first rejected one.
ResizeArgs ==
    (0 .. MaxSmall)
        \cup {UINT8_MOD + k : k \in 0 .. MaxSmall}
        \cup {STACK_MAX_SIZE, STACK_MAX_SIZE + 1}

\* ioctl commands: the resize command and two others.
Cmds == {0, RESIZE_CMD, 2}

\* The threads that call the handlers, one file each.
Threads == 1 .. MaxSessions

\* What a thread has read before it tests anything.
NoLoc == [cond |-> FALSE, cmd |-> 0, arg |-> 0]

(***************************************************************************)
(* Memory.  A buffer is its allocated length (in int32_t elements) and the *)
(* elements written so far, a function from 0-based indices; kmalloc does  *)
(* not initialise, so a fresh buffer has none.                             *)
(***************************************************************************)
EmptyMem == [i \in {} |-> 10]

NULL == [alloc |-> FALSE, len |-> 0, mem |-> EmptyMem]

Kmalloc(n) == [alloc |-> TRUE, len |-> n, mem |-> EmptyMem]

Min(a, b) == IF a <= b THEN a ELSE b

\* Assignment to a uint8_t.
ToUint8(x) == x % UINT8_MOD

\* Index i lies inside the allocation of buf.
InBounds(buf, i) == buf.alloc /\ i >= 0 /\ i < buf.len

\* The values a read of buf[i] can yield: the element written there, or
\* anything when the slot is uninitialised or outside the allocation.
Reads(buf, i) ==
    IF InBounds(buf, i) /\ i \in DOMAIN buf.mem THEN {buf.mem[i]} ELSE Values

\* buf after buf[i] = v; a store outside the allocation lands in memory the
\* model does not hold.
Store(buf, i, v) ==
    IF InBounds(buf, i) THEN [buf EXCEPT !.mem = (i :> v) @@ buf.mem] ELSE buf

\* The buffers memcpy(dst, src, n * sizeof(int32_t)) can leave in dst.
Memcpy(dst, src, n) ==
    { [dst EXCEPT !.mem = g] :
        g \in { h \in [0 .. (Min(n, dst.len) - 1) -> Values] :
                  \A i \in DOMAIN h : h[i] \in Reads(src, i) } }

\* memcpy(dst, src, n elements) touches memory outside dst or src.
MemcpyOutOfBounds(dst, src, n) == n > dst.len \/ n > src.len

Front(s) == SubSeq(s, 1, Len(s) - 1)

Call(op, cmd, arg, rc, out, oob) ==
    [op |-> op, cmd |-> cmd, arg |-> arg, rc |-> rc, out |-> out, oob |-> oob]

(***************************************************************************)
(* Conditions of the handlers.                                             *)
(***************************************************************************)
\* A bounds test that an unsigned top never fails.
StackEmpty_lt == top < 0

\* new_read: if (top == 0)
StackEmpty == top = 0

\* The full test off by one.
StackFull_gt == top > stack_size

\* new_write: if (top >= stack_size)
StackFull == top >= stack_size

\* The range test without its lower bound.
ValidSize_nolow(arg) == arg <= STACK_MAX_SIZE

\* The range test without its upper bound.
ValidSize_nohigh(arg) == arg > 0

\* new_ioctl: if (arg > 0 && arg <= STACK_MAX_SIZE)
ValidSize(arg) == arg > 0 /\ arg <= STACK_MAX_SIZE

\* The pop slot off by one.
PopIndex_top == top

\* new_read: &stack_entries[top - 1]
PopIndex == top - 1

\* new_write: &stack_entries[top]
PushIndex == top

\* new_open: stack_size = MEM_SIZE
OpenSize == ToUint8(MEM_SIZE)

\* new_ioctl: stack_size = arg
ResizeSize(arg) == ToUint8(arg)

\* new_ioctl: memcpy(new_stack, stack_entries, top * sizeof(int32_t))
ResizeCopyCount(arg) == top

\* new_ioctl: top is not assigned
ResizeTop(arg) == top

Init ==
    /\ loaded = TRUE
    /\ nopen = 0
    /\ stack_entries = NULL
    /\ stack_size = 0
    /\ top = 0
    /\ live = 0
    /\ last = Call("init", 0, 0, 0, <<>>, FALSE)
    /\ run = <<>>
    /\ stack_mutex = FALSE
    /\ pc = [t \in Threads |-> "idle"]
    /\ handler = [t \in Threads |-> "none"]
    /\ loc = [t \in Threads |-> NoLoc]
    /\ fd = [t \in Threads |-> FALSE]

(***************************************************************************)
(* new_open                                                                *)
(***************************************************************************)
\* An open that empties the stack it finds.
New_open_reinit(ok) ==
    /\ loaded
    /\ nopen < MaxSessions
    /\ IF stack_entries = NULL
       THEN IF ok
            THEN /\ stack_entries' = Kmalloc(MEM_SIZE)
                 /\ stack_size' = OpenSize
                 /\ top' = 0
                 /\ live' = live + 1
                 /\ nopen' = nopen + 1
                 /\ last' = Call("open", 0, 0, 0, <<>>, FALSE)
            ELSE /\ UNCHANGED <<stack_entries, stack_size, top, live, nopen>>
                 /\ last' = Call("open", 0, 0, -ENOMEM, <<>>, FALSE)
       ELSE /\ UNCHANGED <<stack_entries, stack_size, live>>
            /\ top' = 0
            /\ nopen' = nopen + 1
            /\ last' = Call("open", 0, 0, 0, <<>>, FALSE)
    /\ run' = <<>>
    /\ UNCHANGED loaded

New_open(ok) ==
    /\ loaded
    /\ nopen < MaxSessions
    /\ IF stack_entries = NULL
       THEN IF ok
            THEN /\ stack_entries' = Kmalloc(MEM_SIZE)
                 /\ stack_size' = OpenSize
                 /\ top' = 0
                 /\ live' = live + 1
                 /\ nopen' = nopen + 1
                 /\ last' = Call("open", 0, 0, 0, <<>>, FALSE)
            ELSE /\ UNCHANGED <<stack_entries, stack_size, top, live, nopen>>
                 /\ last' = Call("open", 0, 0, -ENOMEM, <<>>, FALSE)
       ELSE /\ UNCHANGED <<stack_entries, stack_size, top, live>>
            /\ nopen' = nopen + 1
            /\ last' = Call("open", 0, 0, 0, <<>>, FALSE)
    /\ run' = <<>>
    /\ UNCHANGED loaded

(***************************************************************************)
(* new_release                                                             *)
(***************************************************************************)
\* A release that frees the buffer and forgets to reset top.
New_release_keeptop ==
    /\ loaded
    /\ nopen > 0
    /\ IF stack_entries # NULL
       THEN /\ live' = live - 1
            /\ stack_entries' = NULL
            /\ stack_size' = 0
            /\ top' = top
       ELSE UNCHANGED <<stack_entries, stack_size, top, live>>
    /\ nopen' = nopen - 1
    /\ last' = Call("release", 0, 0, 0, <<>>, FALSE)
    /\ run' = <<>>
    /\ UNCHANGED loaded

\* A release that destroys the stack only when the last file closes.
New_release_refcount ==
    /\ loaded
    /\ nopen > 0
    /\ IF stack_entries # NULL /\ nopen = 1
       THEN /\ live' = live - 1
            /\ stack_entries' = NULL
            /\ stack_size' = 0
            /\ top' = 0
       ELSE UNCHANGED <<stack_entries, stack_size, top, live>>
    /\ nopen' = nopen - 1
    /\ last' = Call("release", 0, 0, 0, <<>>, FALSE)
    /\ run' = <<>>
    /\ UNCHANGED loaded

New_release ==
    /\ loaded
    /\ nopen > 0
    /\ IF stack_entries # NULL
       THEN /\ live' = live - 1
            /\ stack_entries' = NULL
            /\ stack_size' = 0
            /\ top' = 0
       ELSE UNCHANGED <<stack_entries, stack_size, top, live>>
    /\ nopen' = nopen - 1
    /\ last' = Call("release", 0, 0, 0, <<>>, FALSE)
    /\ run' = <<>>
    /\ UNCHANGED loaded

(***************************************************************************)
(* new_read: fault is copy_to_user failing.                                *)
(***************************************************************************)
New_read(fault) ==
    /\ loaded
    /\ nopen > 0
    /\ IF StackEmpty
       THEN /\ last' = Call("read", 0, 0, -EINVAL, <<>>, FALSE)
            /\ UNCHANGED <<top, run>>
       ELSE \E v \in Reads(stack_entries, PopIndex) :
              IF fault
              THEN /\ last' = Call("read", 0, 0, -EFAULT, <<>>,
                                   ~InBounds(stack_entries, PopIndex))
                   /\ UNCHANGED <<top, run>>
              ELSE /\ top' = ToUint8(top - 1)
                   /\ last' = Call("read", 0, 0, SIZEOF_INT32, <<v>>,
                                   ~InBounds(stack_entries, PopIndex))
                   /\ run' = Front(run)
    /\ UNCHANGED <<loaded, nopen, stack_entries, stack_size, live>>

(***************************************************************************)
(* new_write: v is the value at buf; fault is copy_from_user failing, in   *)
(* which case the destination slot may hold anything (g) or be untouched.  *)
(***************************************************************************)
New_write(v, fault, touched, g) ==
    /\ loaded
    /\ nopen > 0
    /\ IF StackFull
       THEN /\ last' = Call("write", 0, v, -ENOMEM, <<>>, FALSE)
            /\ UNCHANGED <<stack_entries, top, run>>
       ELSE IF fault
            THEN /\ stack_entries' =
                      IF touched THEN Store(stack_entries, PushIndex, g)
                                 ELSE stack_entries
                 /\ last' = Call("write", 0, v, -EFAULT, <<>>,
                                 ~InBounds(stack_entries, PushIndex))
                 /\ UNCHANGED <<top, run>>
            ELSE /\ stack_entries' = Store(stack_entries, PushIndex, v)
                 /\ top' = ToUint8(top + 1)
                 /\ last' = Call("write", 0, v, SIZEOF_INT32, <<>>,
                                 ~InBounds(stack_entries, PushIndex))
                 /\ run' = Append(run, v)
    /\ UNCHANGED <<loaded, nopen, stack_size, live>>

(***************************************************************************)
(* new_ioctl: ok is kmalloc succeeding.                                    *)
(***************************************************************************)
\* A resize that frees the old buffer before it knows the new one exists.
New_ioctl_dropold(cmd, arg, ok) ==
    /\ loaded
    /\ nopen > 0
    /\ IF cmd = RESIZE_CMD
       THEN IF ValidSize(arg)
            THEN IF ok
                 THEN /\ IF stack_entries # NULL
                         THEN /\ stack_entries' \in
                                   Memcpy(Kmalloc(arg), stack_entries,
                                          ResizeCopyCount(arg))
                              /\ live' = live
                              /\ last' = Call("ioctl", cmd, arg, 0, <<>>,
                                   MemcpyOutOfBounds(Kmalloc(arg), stack_entries,
                                                     ResizeCopyCount(arg)))
                         ELSE /\ stack_entries' = Kmalloc(arg)
                              /\ live' = live + 1
                              /\ last' = Call("ioctl", cmd, arg, 0, <<>>, FALSE)
                      /\ stack_size' = ResizeSize(arg)
                      /\ top' = ResizeTop(arg)
                 ELSE /\ last' = Call("ioctl", cmd, arg, -ENOMEM, <<>>, FALSE)
                      /\ stack_entries' = NULL
                      /\ live' = IF stack_entries # NULL THEN live - 1 ELSE live
                      /\ UNCHANGED <<stack_size, top>>
            ELSE /\ last' = Call("ioctl", cmd, arg, -EINVAL, <<>>, FALSE)
                 /\ UNCHANGED <<stack_entries, stack_size, top, live>>
       ELSE /\ last' = Call("ioctl", cmd, arg, -EINVAL, <<>>, FALSE)
            /\ UNCHANGED <<stack_entries, stack_size, top, live>>
    /\ run' = <<>>
    /\ UNCHANGED <<loaded, nopen>>

\* A switch whose default falls into the resize case.
New_ioctl_anycmd(cmd, arg, ok) ==
    /\ loaded
    /\ nopen > 0
    /\ IF cmd = RESIZE_CMD \/ cmd # RESIZE_CMD
       THEN IF ValidSize(arg)
            THEN IF ok
                 THEN /\ IF stack_entries # NULL
                         THEN /\ stack_entries' \in
                                   Memcpy(Kmalloc(arg), stack_entries,
                                          ResizeCopyCount(arg))
                              /\ live' = live
                              /\ last' = Call("ioctl", cmd, arg, 0, <<>>,
                                   MemcpyOutOfBounds(Kmalloc(arg), stack_entries,
                                                     ResizeCopyCount(arg)))
                         ELSE /\ stack_entries' = Kmalloc(arg)
                              /\ live' = live + 1
                              /\ last' = Call("ioctl", cmd, arg, 0, <<>>, FALSE)
                      /\ stack_size' = ResizeSize(arg)
                      /\ top' = ResizeTop(arg)
                 ELSE /\ last' = Call("ioctl", cmd, arg, -ENOMEM, <<>>, FALSE)
                      /\ UNCHANGED <<stack_entries, stack_size, top, live>>
            ELSE /\ last' = Call("ioctl", cmd, arg, -EINVAL, <<>>, FALSE)
                 /\ UNCHANGED <<stack_entries, stack_size, top, live>>
       ELSE /\ last' = Call("ioctl", cmd, arg, -EINVAL, <<>>, FALSE)
            /\ UNCHANGED <<stack_entries, stack_size, top, live>>
    /\ run' = <<>>
    /\ UNCHANGED <<loaded, nopen>>

\* A resize that never frees the old buffer.
New_ioctl_leak(cmd, arg, ok) ==
    /\ loaded
    /\ nopen > 0
    /\ IF cmd = RESIZE_CMD
       THEN IF ValidSize(arg)
            THEN IF ok
                 THEN /\ IF stack_entries # NULL
                         THEN /\ stack_entries' \in
                                   Memcpy(Kmalloc(arg), stack_entries,
                                          ResizeCopyCount(arg))
                              /\ live' = live + 1
                              /\ last' = Call("ioctl", cmd, arg, 0, <<>>,
                                   MemcpyOutOfBounds(Kmalloc(arg), stack_entries,
                                                     ResizeCopyCount(arg)))
                         ELSE /\ stack_entries' = Kmalloc(arg)
                              /\ live' = live + 1
                              /\ last' = Call("ioctl", cmd, arg, 0, <<>>, FALSE)
                      /\ stack_size' = ResizeSize(arg)
                      /\ top' = ResizeTop(arg)
                 ELSE /\ last' = Call("ioctl", cmd, arg, -ENOMEM, <<>>, FALSE)
                      /\ UNCHANGED <<stack_entries, stack_size, top, live>>
            ELSE /\ last' = Call("ioctl", cmd, arg, -EINVAL, <<>>, FALSE)
                 /\ UNCHANGED <<stack_entries, stack_size, top, live>>
       ELSE /\ last' = Call("ioctl", cmd, arg, -EINVAL, <<>>, FALSE)
            /\ UNCHANGED <<stack_entries, stack_size, top, live>>
    /\ run' = <<>>
    /\ UNCHANGED <<loaded, nopen>>

New_ioctl(cmd, arg, ok) ==
    /\ loaded
    /\ nopen > 0
    /\ IF cmd = RESIZE_CMD
       THEN IF ValidSize(arg)
            THEN IF ok
                 THEN /\ IF stack_entries # NULL
                         THEN /\ stack_entries' \in
                                   Memcpy(Kmalloc(arg), stack_entries,
                                          ResizeCopyCount(arg))
                              /\ live' = live
                              /\ last' = Call("ioctl", cmd, arg, 0, <<>>,
                                   MemcpyOutOfBounds(Kmalloc(arg), stack_entries,
                                                     ResizeCopyCount(arg)))
                         ELSE /\ stack_entries' = Kmalloc(arg)
                              /\ live' = live + 1
                              /\ last' = Call("ioctl", cmd, arg, 0, <<>>, FALSE)
                      /\ stack_size' = ResizeSize(arg)
                      /\ top' = ResizeTop(arg)
                 ELSE /\ last' = Call("ioctl", cmd, arg, -ENOMEM, <<>>, FALSE)
                      /\ UNCHANGED <<stack_entries, stack_size, top, live>>
            ELSE /\ last' = Call("ioctl", cmd, arg, -EINVAL, <<>>, FALSE)
                 /\ UNCHANGED <<stack_entries, stack_size, top, live>>
       ELSE /\ last' = Call("ioctl", cmd, arg, -EINVAL, <<>>, FALSE)
            /\ UNCHANGED <<stack_entries, stack_size, top, live>>
    /\ run' = <<>>
    /\ UNCHANGED <<loaded, nopen>>

(***************************************************************************)
(* character_driver_exit: rmmod, possible only with no file open on the    *)
(* device (.owner = THIS_MODULE).                                          *)
(***************************************************************************)
Character_driver_exit ==
    /\ loaded
    /\ nopen = 0
    /\ IF stack_entries # NULL
       THEN /\ live' = live - 1
            /\ stack_entries' = NULL
            /\ stack_size' = 0
            /\ top' = 0
       ELSE UNCHANGED <<stack_entries, stack_size, top, live>>
    /\ loaded' = FALSE
    /\ last' = Call("exit", 0, 0, 0, <<>>, FALSE)
    /\ run' = <<>>
    /\ UNCHANGED nopen

(***************************************************************************)
(* character_driver_init: insmod of the module again; the statics take     *)
(* their initialisers.                                                     *)
(***************************************************************************)
Character_driver_init ==
    /\ ~loaded
    /\ loaded' = TRUE
    /\ stack_entries' = NULL
    /\ stack_size' = 0
    /\ top' = 0
    /\ last' = Call("init", 0, 0, 0, <<>>, FALSE)
    /\ run' = <<>>
    /\ UNCHANGED <<nopen, live>>

Open == \E ok \in BOOLEAN : New_open(ok)

Release == New_release

Read == \E fault \in BOOLEAN : New_read(fault)

Write ==
    \E v \in Values, fault \in BOOLEAN, touched \in BOOLEAN, g \in Values :
        New_write(v, fault, touched, g)

Ioctl == \E cmd \in Cmds, arg \in ResizeArgs, ok \in BOOLEAN : New_ioctl(cmd, arg, ok)

\* One handler call from entry to return.
AtomicStep ==
    \/ Open
    \/ Release
    \/ Read
    \/ Write
    \/ Ioctl
    \/ Character_driver_exit
    \/ Character_driver_init

Next ==
    \/ Open /\ UNCHANGED lockvars
    \/ Release /\ UNCHANGED lockvars
    \/ Read /\ UNCHANGED lockvars
    \/ Write /\ UNCHANGED lockvars
    \/ Ioctl /\ UNCHANGED lockvars
    \/ Character_driver_exit /\ UNCHANGED lockvars
    \/ Character_driver_init /\ UNCHANGED lockvars

Spec == Init /\ [][Next]_vars

(***************************************************************************)
(* The handlers step by step.  A thread calls a handler ("lock"), takes    *)
(* stack_mutex ("test"), evaluates the handler's first condition ("act"),  *)
(* runs the branch that condition selects ("unlock"), releases the mutex   *)
(* and returns ("idle").                                                   *)
(***************************************************************************)
\* Inputs of the step-by-step handlers.
LockValues == {10}

LockArgs == {0, 1, UINT8_MOD + 1}

LockCmds == {RESIZE_CMD, 2}

FileOps == {"open", "release", "read", "write", "ioctl"}

\* The thread is between mutex_lock and mutex_unlock.
InCS(t) == pc[t] \in {"test", "act", "unlock"}

\* A mutex anyone can take at any time.
MutexCanLock_always == TRUE

\* mutex_lock(&stack_mutex) returns only once the mutex is free.
MutexCanLock == ~stack_mutex

\* A handler whose empty-stack return forgets mutex_unlock.
AfterPath_leak(path) == IF path = "read_empty" THEN "idle" ELSE "unlock"

\* Every return path of every handler calls mutex_unlock before it returns.
AfterPath(path) == "unlock"

Goto(t, where) == pc' = [pc EXCEPT ![t] = where]

\* A system call on the device: open by a thread without a file, the others
\* by a thread with one.  None starts once rmmod is under way.
Invoke(t, o) ==
    /\ loaded
    /\ pc[t] = "idle"
    /\ \A u \in Threads : handler[u] # "exit"
    /\ IF o = "open" THEN ~fd[t] ELSE fd[t]
    /\ Goto(t, "lock")
    /\ handler' = [handler EXCEPT ![t] = o]
    /\ UNCHANGED <<corevars, stack_mutex, loc, fd>>

\* rmmod: only with no file open and no call in flight.
InvokeExit(t) ==
    /\ loaded
    /\ \A u \in Threads : pc[u] = "idle" /\ ~fd[u]
    /\ Goto(t, "lock")
    /\ handler' = [handler EXCEPT ![t] = "exit"]
    /\ UNCHANGED <<corevars, stack_mutex, loc, fd>>

Mutex_lock(t) ==
    /\ pc[t] = "lock"
    /\ MutexCanLock
    /\ stack_mutex' = TRUE
    /\ Goto(t, "test")
    /\ UNCHANGED <<corevars, handler, loc, fd>>

\* The first condition each handler evaluates; ioctl reads cmd and arg.
Test(t, cmd, arg) ==
    /\ pc[t] = "test"
    /\ loc' = [loc EXCEPT ![t] =
                 CASE handler[t] = "open" ->
                        [cond |-> stack_entries = NULL, cmd |-> 0, arg |-> 0]
                   [] handler[t] \in {"release", "exit"} ->
                        [cond |-> stack_entries # NULL, cmd |-> 0, arg |-> 0]
                   [] handler[t] = "read" ->
                        [cond |-> StackEmpty, cmd |-> 0, arg |-> 0]
                   [] handler[t] = "write" ->
                        [cond |-> StackFull, cmd |-> 0, arg |-> 0]
                   [] handler[t] = "ioctl" ->
                        [cond |-> cmd = RESIZE_CMD /\ ValidSize(arg),
                         cmd |-> cmd, arg |-> arg]]
    /\ Goto(t, "act")
    /\ UNCHANGED <<corevars, stack_mutex, handler, fd>>

ActOpen(t, ok) ==
    /\ pc[t] = "act"
    /\ handler[t] = "open"
    /\ IF loc[t].cond
       THEN IF ok
            THEN /\ stack_entries' = Kmalloc(MEM_SIZE)
                 /\ stack_size' = OpenSize
                 /\ top' = 0
                 /\ live' = live + 1
                 /\ nopen' = nopen + 1
                 /\ fd' = [fd EXCEPT ![t] = TRUE]
                 /\ last' = Call("open", 0, 0, 0, <<>>, FALSE)
                 /\ Goto(t, AfterPath("open_ok"))
            ELSE /\ UNCHANGED <<stack_entries, stack_size, top, live, nopen, fd>>
                 /\ last' = Call("open", 0, 0, -ENOMEM, <<>>, FALSE)
                 /\ Goto(t, AfterPath("open_nomem"))
       ELSE /\ UNCHANGED <<stack_entries, stack_size, top, live>>
            /\ nopen' = nopen + 1
            /\ fd' = [fd EXCEPT ![t] = TRUE]
            /\ last' = Call("open", 0, 0, 0, <<>>, FALSE)
            /\ Goto(t, AfterPath("open_ok"))
    /\ run' = <<>>
    /\ UNCHANGED <<loaded, stack_mutex, handler, loc>>

ActRelease(t) ==
    /\ pc[t] = "act"
    /\ handler[t] = "release"
    /\ IF loc[t].cond
       THEN /\ live' = live - 1
            /\ stack_entries' = NULL
            /\ stack_size' = 0
            /\ top' = 0
       ELSE UNCHANGED <<stack_entries, stack_size, top, live>>
    /\ nopen' = nopen - 1
    /\ fd' = [fd EXCEPT ![t] = FALSE]
    /\ last' = Call("release", 0, 0, 0, <<>>, FALSE)
    /\ run' = <<>>
    /\ Goto(t, AfterPath("release"))
    /\ UNCHANGED <<loaded, stack_mutex, handler, loc>>

ActRead(t, fault) ==
    /\ pc[t] = "act"
    /\ handler[t] = "read"
    /\ IF loc[t].cond
       THEN /\ last' = Call("read", 0, 0, -EINVAL, <<>>, FALSE)
            /\ Goto(t, AfterPath("read_empty"))
            /\ UNCHANGED <<top, run>>
       ELSE \E v \in Reads(stack_entries, PopIndex) :
              IF fault
              THEN /\ last' = Call("read", 0, 0, -EFAULT, <<>>,
                                   ~InBounds(stack_entries, PopIndex))
                   /\ Goto(t, AfterPath("read_fault"))
                   /\ UNCHANGED <<top, run>>
              ELSE /\ top' = ToUint8(top - 1)
                   /\ last' = Call("read", 0, 0, SIZEOF_INT32, <<v>>,
                                   ~InBounds(stack_entries, PopIndex))
                   /\ run' = Front(run)
                   /\ Goto(t, AfterPath("read_ok"))
    /\ UNCHANGED <<loaded, nopen, stack_entries, stack_size, live>>
    /\ UNCHANGED <<stack_mutex, handler, loc, fd>>

ActWrite(t, v, fault, touched, g) ==
    /\ pc[t] = "act"
    /\ handler[t] = "write"
    /\ IF loc[t].cond
       THEN /\ last' = Call("write", 0, v, -ENOMEM, <<>>, FALSE)
            /\ Goto(t, AfterPath("write_full"))
            /\ UNCHANGED <<stack_entries, top, run>>
       ELSE IF fault
            THEN /\ stack_entries' =
                      IF touched THEN Store(stack_entries, PushIndex, g)
                                 ELSE stack_entries
                 /\ last' = Call("write", 0, v, -EFAULT, <<>>,
                                 ~InBounds(stack_entries, PushIndex))
                 /\ Goto(t, AfterPath("write_fault"))
                 /\ UNCHANGED <<top, run>>
            ELSE /\ stack_entries' = Store(stack_entries, PushIndex, v)
                 /\ top' = ToUint8(top + 1)
                 /\ last' = Call("write", 0, v, SIZEOF_INT32, <<>>,
                                 ~InBounds(stack_entries, PushIndex))
                 /\ run' = Append(run, v)
                 /\ Goto(t, AfterPath("write_ok"))
    /\ UNCHANGED <<loaded, nopen, stack_size, live>>
    /\ UNCHANGED <<stack_mutex, handler, loc, fd>>

ActIoctl(t, ok) ==
    /\ pc[t] = "act"
    /\ handler[t] = "ioctl"
    /\ IF loc[t].cond
       THEN IF ok
            THEN /\ IF stack_entries # NULL
                    THEN /\ stack_entries' \in
                              Memcpy(Kmalloc(loc[t].arg), stack_entries,
                                     ResizeCopyCount(loc[t].arg))
                         /\ live' = live
                         /\ last' = Call("ioctl", loc[t].cmd, loc[t].arg, 0, <<>>,
                              MemcpyOutOfBounds(Kmalloc(loc[t].arg), stack_entries,
                                                ResizeCopyCount(loc[t].arg)))
                    ELSE /\ stack_entries' = Kmalloc(loc[t].arg)
                         /\ live' = live + 1
                         /\ last' = Call("ioctl", loc[t].cmd, loc[t].arg, 0, <<>>,
                                         FALSE)
                 /\ stack_size' = ResizeSize(loc[t].arg)
                 /\ top' = ResizeTop(loc[t].arg)
                 /\ Goto(t, AfterPath("ioctl_ok"))
            ELSE /\ last' = Call("ioctl", loc[t].cmd, loc[t].arg, -ENOMEM, <<>>,
                                 FALSE)
                 /\ Goto(t, AfterPath("ioctl_nomem"))
                 /\ UNCHANGED <<stack_entries, stack_size, top, live>>
       ELSE /\ last' = Call("ioctl", loc[t].cmd, loc[t].arg, -EINVAL, <<>>, FALSE)
            /\ Goto(t, AfterPath(IF loc[t].cmd = RESIZE_CMD
                                 THEN "ioctl_badsize" ELSE "ioctl_badcmd"))
            /\ UNCHANGED <<stack_entries, stack_size, top, live>>
    /\ run' = <<>>
    /\ UNCHANGED <<loaded, nopen>>
    /\ UNCHANGED <<stack_mutex, handler, loc, fd>>

ActExit(t) ==
    /\ pc[t] = "act"
    /\ handler[t] = "exit"
    /\ IF loc[t].cond
       THEN /\ live' = live - 1
            /\ stack_entries' = NULL
            /\ stack_size' = 0
            /\ top' = 0
       ELSE UNCHANGED <<stack_entries, stack_size, top, live>>
    /\ loaded' = FALSE
    /\ last' = Call("exit", 0, 0, 0, <<>>, FALSE)
    /\ run' = <<>>
    /\ Goto(t, AfterPath("exit"))
    /\ UNCHANGED <<nopen, stack_mutex, handler, loc, fd>>

Mutex_unlock(t) ==
    /\ pc[t] = "unlock"
    /\ stack_mutex' = FALSE
    /\ Goto(t, "idle")
    /\ handler' = [handler EXCEPT ![t] = "none"]
    /\ loc' = [loc EXCEPT ![t] = NoLoc]
    /\ UNCHANGED <<corevars, fd>>

\* insmod after an rmmod that has returned.
Reload ==
    /\ \A t \in Threads : pc[t] = "idle"
    /\ Character_driver_init
    /\ UNCHANGED lockvars

Enter == \E t \in Threads, o \in FileOps : Invoke(t, o)

EnterExit == \E t \in Threads : InvokeExit(t)

Lock == \E t \in Threads : Mutex_lock(t)

TestStep == \E t \in Threads, cmd \in LockCmds, arg \in LockArgs : Test(t, cmd, arg)

\* The branch a thread runs after its test.
Act(t) ==
    \/ \E ok \in BOOLEAN : ActOpen(t, ok)
    \/ ActRelease(t)
    \/ \E fault \in BOOLEAN : ActRead(t, fault)
    \/ \E v \in LockValues, fault \in BOOLEAN, touched \in BOOLEAN, g \in LockValues :
         ActWrite(t, v, fault, touched, g)
    \/ \E ok \in BOOLEAN : ActIoctl(t, ok)
    \/ ActExit(t)

ActStep == \E t \in Threads : Act(t)

Unlock == \E t \in Threads : Mutex_unlock(t)

NextLock ==
    \/ Enter
    \/ EnterExit
    \/ Lock
    \/ TestStep
    \/ ActStep
    \/ Unlock
    \/ Reload

SpecLock == Init /\ [][NextLock]_vars

\* A thread inside a handler keeps running, and a thread waiting in
\* mutex_lock gets the mutex if it is free again and again (the mutex hands
\* over to its waiters).
Fairness ==
    \A t \in Threads :
        /\ WF_vars(\E cmd \in LockCmds, arg \in LockArgs : Test(t, cmd, arg))
        /\ WF_vars(Act(t))
        /\ WF_vars(Mutex_unlock(t))
        /\ SF_vars(Mutex_lock(t))

FairSpecLock == Init /\ [][NextLock]_vars /\ Fairness

TypeOK ==
    /\ loaded \in BOOLEAN
    /\ nopen \in 0 .. MaxSessions
    /\ stack_size \in 0 .. (UINT8_MOD - 1)
    /\ top \in 0 .. (UINT8_MOD - 1)
    /\ live \in 0 .. 1
    /\ stack_entries.alloc \in BOOLEAN
    /\ stack_entries.len \in 0 .. STACK_MAX_SIZE

(***************************************************************************)
(* Properties.                                                             *)
(***************************************************************************)
\* The stack exists.
Exists == stack_entries # NULL

\* The step is a call of handler op.
IsCall(op) == last'.op = op

\* The step is ioctl(RESIZE_CMD, arg) returning 0.
ResizeOk == IsCall("ioctl") /\ last'.cmd = RESIZE_CMD /\ last'.rc = 0

\* Buffers a and b hold the same written element at every index below n.
SameElements(a, b, n) ==
    \A i \in 0 .. (n - 1) :
        /\ i \in DOMAIN a.mem
        /\ i \in DOMAIN b.mem
        /\ a.mem[i] = b.mem[i]

\* Every live slot below top that lies in the buffer has been written.
LiveSlotsWritten ==
    \A i \in 0 .. (top - 1) : InBounds(stack_entries, i) => i \in DOMAIN stack_entries.mem

\* C1: between operations 0 <= top <= capacity (stack_size).
C1_TopWithinCapacity == 0 <= top /\ top <= stack_size

\* C2: a successful resize(n) of an existing stack with n < top sets top = n
\* and keeps exactly the elements at indices [0, n) in place.
C2_ShrinkTruncates ==
    [][(ResizeOk /\ Exists /\ last'.arg < top)
         => /\ top' = last'.arg
            /\ SameElements(stack_entries, stack_entries', last'.arg)]_vars

\* C3: a session-begin that finds the stack Uninitialized leaves the stack
\* existing with top = 0 and capacity = 1024.
C3_OpenCapacity ==
    [][(IsCall("open") /\ last'.rc = 0 /\ ~Exists)
         => /\ stack_entries' # NULL
            /\ top' = 0
            /\ stack_size' = MEM_SIZE]_vars

\* C4: a successful resize(n) of an existing stack, 0 < n <= STACK_MAX_SIZE,
\* sets capacity to exactly n.
C4_ResizeSetsCapacity ==
    [][(ResizeOk /\ Exists) => stack_size' = last'.arg]_vars

\* C5: after an unbroken run of successful pushes v1..vn, each pop (whose copy
\* to user space does not fault) succeeds, returns the last value of the run
\* not yet popped and decrements top by exactly one, so n pops return
\* vn, ..., v1.
C5_LIFO ==
    [][(IsCall("read") /\ run # <<>> /\ last'.rc # -EFAULT)
         => /\ last'.rc = SIZEOF_INT32
            /\ last'.out = <<run[Len(run)]>>
            /\ top' = top - 1
            /\ run' = Front(run)]_vars

C5_Witness ==
    /\ last.op = "read"
    /\ last.rc = SIZEOF_INT32
    /\ last.out = <<20>>
    /\ run = <<10>>

\* C6: a push on an existing stack with top >= capacity fails with ENOMEM
\* (Exhausted) and leaves top, capacity and the buffer unchanged.
C6_PushFull ==
    [][(IsCall("write") /\ Exists /\ top >= stack_size)
         => /\ last'.rc = -ENOMEM
            /\ UNCHANGED <<stack_entries, stack_size, top>>]_vars

C6_Witness ==
    /\ last.op = "write"
    /\ last.rc = -ENOMEM
    /\ Exists
    /\ top = stack_size
    /\ top > 0

\* C7: a pop on an existing stack with top = 0 fails with EINVAL (Empty),
\* returns no value and leaves top, capacity and the buffer unchanged.
C7_PopEmpty ==
    [][(IsCall("read") /\ Exists /\ top = 0)
         => /\ last'.rc = -EINVAL
            /\ last'.out = <<>>
            /\ UNCHANGED <<stack_entries, stack_size, top>>]_vars

C7_Witness ==
    /\ last.op = "read"
    /\ last.rc = -EINVAL
    /\ Exists
    /\ top = 0
    /\ stack_size > 0

\* C8: a successful resize(n) of an existing stack with top <= n leaves top
\* unchanged and keeps every live element at [0, top) at its index.
C8_GrowPreserves ==
    [][(ResizeOk /\ Exists /\ top <= last'.arg)
         => /\ top' = top
            /\ SameElements(stack_entries, stack_entries', top)]_vars

\* C9: a resize whose argument is 0 or exceeds STACK_MAX_SIZE fails with
\* EINVAL (InvalidSize) in every state and changes none of capacity, top, the
\* buffer and the existence of the stack.
C9_InvalidSize ==
    [][(IsCall("ioctl") /\ last'.cmd = RESIZE_CMD
          /\ (last'.arg = 0 \/ last'.arg > STACK_MAX_SIZE))
         => /\ last'.rc = -EINVAL
            /\ UNCHANGED <<stack_entries, stack_size, top, live>>]_vars

C9_Witness ==
    /\ last.op = "ioctl"
    /\ last.cmd = RESIZE_CMD
    /\ last.arg = STACK_MAX_SIZE + 1
    /\ last.rc = -EINVAL
    /\ Exists
    /\ top > 0

\* C10: right after any session-end the stack does not exist, capacity = 0
\* and top = 0, session-end returned success, no buffer is outstanding; and
\* the session-begin that creates the stack anew starts it with top = 0 and a
\* buffer holding none of the earlier contents.
C10_ReleaseClears ==
    /\ [](last.op = "release"
            => /\ stack_entries = NULL
               /\ stack_size = 0
               /\ top = 0
               /\ live = 0
               /\ last.rc = 0)
    /\ [][(IsCall("open") /\ last'.rc = 0 /\ ~Exists)
            => /\ top' = 0
               /\ stack_entries'.mem = EmptyMem]_vars

C10_Witness ==
    /\ last.op = "release"
    /\ nopen > 0
    /\ stack_entries = NULL

\* The program state a failed or rejected call must leave alone.
StackUnchanged == UNCHANGED <<stack_entries, stack_size, top, live>>

\* C11: a push or pop while the stack does not exist fails with an outcome
\* (NotInitialized) that is neither Empty (-EINVAL from read) nor Exhausted
\* (-ENOMEM from write), and mutates nothing.
C11_NotInitialized ==
    [][((IsCall("read") \/ IsCall("write")) /\ ~Exists)
         => /\ last'.rc < 0
            /\ last'.rc \notin {-EINVAL, -ENOMEM}
            /\ StackUnchanged]_vars

C13_OpenIdempotent ==
    [][(IsCall("open") /\ Exists) => (last'.rc = 0 /\ StackUnchanged)]_vars

C13_Witness ==
    /\ last.op = "open"
    /\ last.rc = 0
    /\ nopen = 2
    /\ top > 0

C16_AllocFailure ==
    [][/\ (IsCall("ioctl") /\ last'.rc = -ENOMEM)
            => /\ last'.cmd = RESIZE_CMD
               /\ last'.arg \in 1 .. STACK_MAX_SIZE
               /\ StackUnchanged
       /\ (IsCall("open") /\ last'.rc = -ENOMEM)
            => /\ ~Exists
               /\ ~Exists'
               /\ stack_size' = 0
               /\ top' = 0
               /\ UNCHANGED <<live, nopen>>
       /\ (IsCall("open") /\ ~Exists') => last'.rc = -ENOMEM]_vars

C16_Witness ==
    /\ last.op = "ioctl"
    /\ last.rc = -ENOMEM
    /\ Exists
    /\ top > 0

\* C17: an ioctl whose command is not the resize command returns -EINVAL
\* whatever its argument and the state, and changes nothing.
C17_UnsupportedCommand ==
    [][(IsCall("ioctl") /\ last'.cmd # RESIZE_CMD)
         => (last'.rc = -EINVAL /\ StackUnchanged)]_vars

C17_Witness ==
    /\ last.op = "ioctl"
    /\ last.cmd = 2
    /\ last.arg = 2
    /\ last.rc = -EINVAL
    /\ Exists
    /\ top > 0

\* C19: no handler touches memory outside the allocated buffer: the slot
\* pushed, the slot popped and the range resize copies lie below the
\* allocated length.
C19_AccessInBounds == last.oob = FALSE

\* C20: between operations exactly the current buffer is allocated when the
\* stack exists and nothing is when it does not, and module teardown leaves
\* no buffer outstanding.
C20_BufferOwnership ==
    /\ live = IF Exists THEN 1 ELSE 0
    /\ stack_entries.alloc = Exists
    /\ (~loaded) => (live = 0 /\ ~Exists)

C20_Witness ==
    /\ last.op = "ioctl"
    /\ last.rc = 0
    /\ top > 0
    /\ live = 1
    /\ Exists

\* C15: at most one thread is between mutex_lock and mutex_unlock, the mutex
\* is held exactly then, every step of the step-by-step handlers either
\* leaves the program state alone or changes it as one whole handler call
\* does (so every concurrent execution is a sequential order of the calls),
\* and never is more than one buffer allocated (two concurrent session-begins
\* allocate once).
C15_Serialized ==
    /\ [](\A t, u \in Threads : (InCS(t) /\ InCS(u)) => t = u)
    /\ [](stack_mutex <=> \E t \in Threads : InCS(t))
    /\ [](live <= 1)
    /\ [][AtomicStep]_corevars

\* Two threads called open on the non-existent stack; the first has
\* allocated and not yet unlocked, the second waits in mutex_lock.
C15_Witness ==
    /\ pc[1] = "unlock"
    /\ handler[1] = "open"
    /\ loc[1].cond
    /\ pc[2] = "lock"
    /\ handler[2] = "open"
    /\ live = 1
    /\ nopen = 1

\* C18: the mutex is free whenever no thread is inside a handler, it is
\* held by exactly the thread inside one, and under fair scheduling every
\* thread that has called a handler returns from it.
C18_LockAlwaysReleased ==
    /\ []((\A t \in Threads : pc[t] \in {"idle", "lock"}) => ~stack_mutex)
    /\ [](\A t \in Threads : InCS(t) => stack_mutex)
    /\ \A t \in Threads : (pc[t] = "lock") ~> (pc[t] = "idle")

\* A thread waits in mutex_lock while another holds the mutex on the error
\* path of read.
C18_Witness ==
    /\ pc[1] = "lock"
    /\ pc[2] = "unlock"
    /\ handler[2] = "read"
    /\ last.op = "read"
    /\ last.rc = -EFAULT
    /\ stack_mutex

====
